---- MODULE Spec2Model ----
(***************************************************************************)
(* Tool functions of the agent notebooks and the calls a hosting agent     *)
(* runtime makes to them.                                                  *)
(*                                                                         *)
(* Python strings are sequences of one-character strings, so that a label  *)
(* prefix, a concatenation or a formatted timestamp is computed and not    *)
(* assumed.  A Python value is tagged with its type (str / list), an       *)
(* Optional[int] is <<>> (None) or <<n>>.                                  *)
(***************************************************************************)
EXTENDS Integers, Sequences, FiniteSets, TLC

VARIABLES now, pc, call, dep, outcome, ddgs_log, returns, session, prev,
          kb_pc, kb_ran, kb_region, kb_tree, kb_log, kb_bucket,
          knowledge_base, kb_id

\* the agent notebooks
toolvars == <<now, pc, call, dep, outcome, ddgs_log, returns, session, prev>>
\* the knowledge-base notebook
kbvars == <<kb_pc, kb_ran, kb_region, kb_tree, kb_log, kb_bucket,
            knowledge_base, kb_id>>

vars == <<now, pc, call, dep, outcome, ddgs_log, returns, session, prev,
          kb_pc, kb_ran, kb_region, kb_tree, kb_log, kb_bucket,
          knowledge_base, kb_id>>

----------------------------------------------------------------------------
(* Bounds of the model *)

\* clock ticks explored after the first instant
MaxTicks == 3
\* records the search provider may hold for a query
MaxHits == 3
\* largest result cap an invocation passes
MaxCap == 3
\* longest failure message
MaxMsgLen == 1
\* directories under the uploaded path, the path itself included
MaxDirs == 2
\* file names a directory may hold
MaxNames == 2

----------------------------------------------------------------------------
(* String literals of the source *)

RatelimitText == <<"R","a","t","e","l","i","m","i","t","E","x","c","e","p","t","i","o","n",":"," ","P","l","e","a","s","e"," ","t","r","y"," ","a","g","a","i","n"," ","a","f","t","e","r"," ","a"," ","s","h","o","r","t"," ","d","e","l","a","y",".">>
RatelimitLabel == <<"R","a","t","e","l","i","m","i","t","E","x","c","e","p","t","i","o","n">>
ProviderLabel == <<"D","u","c","k","D","u","c","k","G","o","S","e","a","r","c","h","E","x","c","e","p","t","i","o","n">>
GenericLabel == <<"E","x","c","e","p","t","i","o","n">>
ColonSpace == <<":"," ">>
NoResultsFound == <<"N","o"," ","r","e","s","u","l","t","s"," ","f","o","u","n","d",".">>
Sunny == <<"s","u","n","n","y">>
UTC == <<"U","T","C">>
us_en == <<"u","s","-","e","n">>

\* inputs the runtime may pass
utc_lower == <<"u","t","c">>
EtcUTC == <<"E","t","c","/","U","T","C">>
LosAngeles == <<"A","m","e","r","i","c","a","/","L","o","s","_","A","n","g","e","l","e","s">>
Kolkata == <<"A","s","i","a","/","K","o","l","k","a","t","a">>
Phobos == <<"M","a","r","s","/","P","h","o","b","o","s">>
cats == <<"c","a","t","s">>
wt_wt == <<"w","t","-","w","t">>
Seattle == <<"S","e","a","t","t","l","e">>
Oslo == <<"O","s","l","o">>

----------------------------------------------------------------------------
(* Python values *)

None == <<>>
Some(n) == <<n>>
StrVal(s) == [type |-> "str", v |-> s]
ListVal(l) == [type |-> "list", v |-> l]

Return(v) == [kind |-> "return", value |-> v]
Raise(c, m) == [kind |-> "raise", cls |-> c, msg |-> m]
NoOutcome == [kind |-> "none"]

\* s startswith p
StartsWith(s, p) == Len(s) >= Len(p) /\ SubSeq(s, 1, Len(p)) = p

\* the mapping f extended by g: f's value where both are defined
Merge(f, g) ==
    [p \in (DOMAIN f) \cup (DOMAIN g) |-> IF p \in DOMAIN f THEN f[p] ELSE g[p]]

Min(a, b) == IF a <= b THEN a ELSE b

\* all sequences over S of length at most n
RECURSIVE SeqsUpTo(_, _)
SeqsUpTo(S, n) ==
    IF n = 0 THEN {<<>>}
    ELSE LET shorter == SeqsUpTo(S, n - 1)
         IN  shorter \cup {Append(s, c) : s \in shorter, c \in S}

----------------------------------------------------------------------------
(* Exception classes: the built-in ones and those of                       *)
(* duckduckgo_search.exceptions                                            *)

Base(c) ==
    CASE c = "RatelimitException" -> "DuckDuckGoSearchException"
      [] c = "TimeoutException" -> "DuckDuckGoSearchException"
      [] c = "DuckDuckGoSearchException" -> "Exception"
      [] c = "ValueError" -> "Exception"
      [] c = "ZoneInfoNotFoundError" -> "KeyError"
      [] c = "KeyError" -> "Exception"
      [] c = "ClientError" -> "Exception"
      [] c = "BotoCoreError" -> "Exception"
      [] c = "NoCredentialsError" -> "BotoCoreError"
      [] c = "Boto3Error" -> "Exception"
      [] c = "S3UploadFailedError" -> "Boto3Error"
      [] c = "Exception" -> "BaseException"
      [] OTHER -> "object"

RECURSIVE IsSubclass(_, _)
IsSubclass(c, d) ==
    IF c = d THEN TRUE
    ELSE IF c = "object" THEN FALSE
    ELSE IsSubclass(Base(c), d)

\* try/except: the first handler whose class the exception is an instance of;
\* 0 when no handler matches and the exception propagates
FirstHandler(handlers, c) ==
    LET matching == {i \in 1..Len(handlers) : IsSubclass(c, handlers[i])}
    IN  IF matching = {} THEN 0
        ELSE CHOOSE i \in matching : \A j \in matching : i <= j

----------------------------------------------------------------------------
(* The search dependency: DDGS().text(keywords, region=, max_results=)      *)

\* the records the provider holds for a query at the moment of the call
Hits(h) == [i \in 1..h |-> [href |-> i]]

MsgAlphabet == {"E", "4"}
Messages == SeqsUpTo(MsgAlphabet, MaxMsgLen)

\* the classes of failure the dependency raises
DepExceptionClasses ==
    {"RatelimitException", "TimeoutException", "DuckDuckGoSearchException",
     "ValueError"}

\* what the external service does with one call: it answers with the
\* records it holds, or the call fails
Worlds ==
    {[kind |-> "ok", hits |-> Hits(h)] : h \in 0..MaxHits}
    \cup {[kind |-> "raise", cls |-> c, msg |-> m] :
            c \in DepExceptionClasses, m \in Messages}

\* itertools.islice(results, max_results) of the provider's records
islice(results, max_results) ==
    IF max_results = None THEN results
    ELSE SubSeq(results, 1, Min(max_results[1], Len(results)))

\* one call of the dependency with the request the tool sends
DDGS_text(request, world) ==
    IF world.kind = "raise" THEN Raise(world.cls, world.msg)
    ELSE IF request.max_results # None /\ request.max_results[1] < 0
         THEN Raise("ValueError", <<"4">>)
    ELSE Return(ListVal(islice(world.hits, request.max_results)))

Truthy_any_list(v) == TRUE

\* bool(results): an empty list is falsy
Truthy(v) == v.v # <<>>

\* f"{label}: {e}"
Labelled(label, e) == label \o ColonSpace \o e

\* the except clauses of websearch, in the order they are written
websearch_handlers_reordered ==
    <<[cls |-> "DuckDuckGoSearchException", clause |-> "provider"],
      [cls |-> "RatelimitException", clause |-> "ratelimit"],
      [cls |-> "Exception", clause |-> "generic"]>>

websearch_handlers ==
    <<[cls |-> "RatelimitException", clause |-> "ratelimit"],
      [cls |-> "DuckDuckGoSearchException", clause |-> "provider"],
      [cls |-> "Exception", clause |-> "generic"]>>

websearch_except_provider_unlabelled(clause, raised) ==
    CASE clause = "ratelimit" -> Return(StrVal(RatelimitText))
      [] clause = "provider" -> Return(StrVal(Labelled(GenericLabel, raised.msg)))
      [] clause = "generic" -> Return(StrVal(Labelled(GenericLabel, raised.msg)))
      [] OTHER -> raised

websearch_except_generic_no_description(clause, raised) ==
    CASE clause = "ratelimit" -> Return(StrVal(RatelimitText))
      [] clause = "provider" -> Return(StrVal(Labelled(ProviderLabel, raised.msg)))
      [] clause = "generic" -> Return(StrVal(GenericLabel))
      [] OTHER -> raised

\* the body of the except clause selected for the failure; with no clause
\* the failure propagates
websearch_except(clause, raised) ==
    CASE clause = "ratelimit" -> Return(StrVal(RatelimitText))
      [] clause = "provider" -> Return(StrVal(Labelled(ProviderLabel, raised.msg)))
      [] clause = "generic" -> Return(StrVal(Labelled(GenericLabel, raised.msg)))
      [] OTHER -> raised

\* try ... except of websearch applied to a failure of the dependency
websearch_handle(raised) ==
    LET classes == [i \in 1..Len(websearch_handlers) |-> websearch_handlers[i].cls]
        h == FirstHandler(classes, raised.cls)
    IN  websearch_except(IF h = 0 THEN "" ELSE websearch_handlers[h].clause,
                         raised)

websearch_request_uncapped(keywords, region, max_results) ==
    [keywords |-> keywords, region |-> region, max_results |-> None]

\* the request websearch sends to the dependency
websearch_request(keywords, region, max_results) ==
    [keywords |-> keywords, region |-> region, max_results |-> max_results]

\* one outbound call and the dependency's answer to it
DDGS_call(request, world) ==
    [request |-> request, answer |-> DDGS_text(request, world)]

websearch_retrying(keywords, region, max_results, world, frame) ==
    LET request == websearch_request(keywords, region, max_results)
        first == DDGS_call(request, world)
        again == first.answer.kind = "raise"
                 /\ IsSubclass(first.answer.cls, "RatelimitException")
        results == first.answer
        out == IF results.kind = "return"
               THEN IF Truthy(results.value)
                    THEN Return(results.value)
                    ELSE Return(StrVal(NoResultsFound))
               ELSE websearch_handle(results)
    IN  [outcome |-> out,
         ddgs_calls |-> IF again THEN <<first, first>> ELSE <<first>>,
         frame |-> frame]

\* websearch: its outcome, the calls it made to the dependency, and the
\* caller-owned state (arguments, session variables) it leaves behind
websearch(keywords, region, max_results, world, frame) ==
    LET request == websearch_request(keywords, region, max_results)
        first == DDGS_call(request, world)
        results == first.answer
        out == IF results.kind = "return"
               THEN IF Truthy(results.value)
                    THEN Return(results.value)
                    ELSE Return(StrVal(NoResultsFound))
               ELSE websearch_handle(results)
    IN  [outcome |-> out, ddgs_calls |-> <<first>>, frame |-> frame]

----------------------------------------------------------------------------
(* The clock and the time zone database                                    *)

\* minutes since 2025-03-01T00:00Z: the first instant is 2025-03-09T09:58Z
FirstInstant == 12118
\* America/Los_Angeles enters daylight saving time at 2025-03-09T10:00Z
DstStart == 12120

Instants == FirstInstant..(FirstInstant + MaxTicks)

\* the keys zoneinfo finds
ZoneInfoKeys == {UTC, EtcUTC, LosAngeles, Kolkata}

\* datetime.timezone.utc
tz_utc == [kind |-> "fixed", key |-> UTC]

\* ZoneInfo(key)
ZoneInfo(key) ==
    IF key \in ZoneInfoKeys
    THEN Return([kind |-> "zoneinfo", key |-> key])
    ELSE Raise("ZoneInfoNotFoundError", key)

\* tzinfo.utcoffset at the instant t, in minutes
utcoffset(tzobj, t) ==
    IF tzobj.kind = "fixed" THEN 0
    ELSE CASE tzobj.key = LosAngeles -> IF t < DstStart THEN -480 ELSE -420
           [] tzobj.key = Kolkata -> 330
           [] OTHER -> 0

LowerCase == <<"a","b","c","d","e","f","g","h","i","j","k","l","m","n","o","p","q","r","s","t","u","v","w","x","y","z">>
UpperCase == <<"A","B","C","D","E","F","G","H","I","J","K","L","M","N","O","P","Q","R","S","T","U","V","W","X","Y","Z">>

\* str.upper()
upper(s) ==
    [i \in 1..Len(s) |->
        IF \E k \in 1..26 : LowerCase[k] = s[i]
        THEN UpperCase[CHOOSE k \in 1..26 : LowerCase[k] = s[i]]
        ELSE s[i]]

Digits == <<"0","1","2","3","4","5","6","7","8","9">>
TwoDigits(n) == <<Digits[(n \div 10) + 1], Digits[(n % 10) + 1]>>

\* datetime.now(tz): the wall time in the zone and the zone's offset
datetime_now(tzobj, t) ==
    [wall |-> t + utcoffset(tzobj, t), offset |-> utcoffset(tzobj, t)]

\* datetime.isoformat() of an aware datetime of March 2025 with whole minutes
isoformat(dt) ==
    LET day == (dt.wall \div 1440) + 1
        hh == (dt.wall % 1440) \div 60
        mm == dt.wall % 60
        a == IF dt.offset < 0 THEN -dt.offset ELSE dt.offset
    IN  <<"2","0","2","5","-","0","3","-">> \o TwoDigits(day) \o <<"T">>
        \o TwoDigits(hh) \o <<":">> \o TwoDigits(mm) \o <<":","0","0">>
        \o (IF dt.offset < 0 THEN <<"-">> ELSE <<"+">>)
        \o TwoDigits(a \div 60) \o <<":">> \o TwoDigits(a % 60)

current_time_always_utc(timezone, t, frame) ==
    [outcome |-> Return(StrVal(isoformat(datetime_now(tz_utc, t)))),
     ddgs_calls |-> <<>>, frame |-> frame]

current_time_setting_TZ(timezone, t, frame) ==
    LET timezone_obj == IF upper(timezone) = UTC
                        THEN Return(tz_utc)
                        ELSE ZoneInfo(timezone)
        out == IF timezone_obj.kind = "raise" THEN timezone_obj
               ELSE Return(StrVal(isoformat(datetime_now(timezone_obj.value, t))))
    IN  [outcome |-> out, ddgs_calls |-> <<>>,
         frame |-> [frame EXCEPT !.session.environ =
                        Merge([TZ |-> timezone], frame.session.environ)]]

\* current_time: no handler, a failure of ZoneInfo propagates
current_time(timezone, t, frame) ==
    LET timezone_obj == IF upper(timezone) = UTC
                        THEN Return(tz_utc)
                        ELSE ZoneInfo(timezone)
        out == IF timezone_obj.kind = "raise" THEN timezone_obj
               ELSE Return(StrVal(isoformat(datetime_now(timezone_obj.value, t))))
    IN  [outcome |-> out, ddgs_calls |-> <<>>, frame |-> frame]

current_weather_of_city(city, t, frame) ==
    [outcome |-> Return(StrVal(IF city = Seattle THEN <<"r","a","i","n">> ELSE Sunny)),
     ddgs_calls |-> <<>>, frame |-> frame]

current_weather_by_clock(city, t, frame) ==
    [outcome |-> Return(StrVal(IF t % 2 = 0 THEN Sunny ELSE <<"r","a","i","n">>)),
     ddgs_calls |-> <<>>, frame |-> frame]

\* current_weather: the stub
current_weather(city, t, frame) ==
    [outcome |-> Return(StrVal(Sunny)), ddgs_calls |-> <<>>, frame |-> frame]

----------------------------------------------------------------------------
(* The knowledge-base notebook: bucket, upload, knowledge base, query       *)

\* session.region_name: None, or the configured region
Regions == {None, Some("us-east-1"), Some("us-west-2")}

data_bucket_name == "bedrock-hr-agent-<suffix>-bucket"
onboarding_files == <<".","/","o","n","b","o","a","r","d","i","n","g","_","f","i","l","e","s">>

\* one external call and the service's answer to it
ApiCall(request, answer) == [request |-> request, answer |-> answer]
Ok(v) == [kind |-> "ok", value |-> v]

create_bucket_request_ignoring_us_east_1(bucket_name, region) ==
    [op |-> "create_bucket", Bucket |-> bucket_name,
     CreateBucketConfiguration |->
        IF region = None THEN None
        ELSE Some([LocationConstraint |-> region[1]])]

\* the arguments of s3.create_bucket in the branch taken for the region
create_bucket_request(bucket_name, region) ==
    [op |-> "create_bucket", Bucket |-> bucket_name,
     CreateBucketConfiguration |->
        IF region = None \/ region = Some("us-east-1") THEN None
        ELSE Some([LocationConstraint |-> region[1]])]

create_s3_bucket_handlers == <<"ClientError">>

\* what the service may do with the create_bucket request: the bucket is
\* created; a ClientError, after which the bucket may or may not be there
\* (it is with BucketAlreadyOwnedByYou); a failure before any response
BucketWorlds ==
    {[kind |-> "ok", exists |-> TRUE]}
    \cup {[kind |-> "raise", cls |-> "ClientError", exists |-> e] : e \in BOOLEAN}
    \cup {[kind |-> "raise", cls |-> "NoCredentialsError", exists |-> FALSE]}

create_s3_bucket_retrying(bucket_name, region, world) ==
    LET request == create_bucket_request(bucket_name, region)
        answer == IF world.kind = "ok" THEN Ok(None) ELSE Raise(world.cls, <<>>)
        caught == answer.kind = "raise"
                  /\ FirstHandler(create_s3_bucket_handlers, answer.cls) # 0
    IN  [calls |-> IF caught
                   THEN <<ApiCall(request, answer), ApiCall(request, answer)>>
                   ELSE <<ApiCall(request, answer)>>,
         outcome |-> IF answer.kind = "raise" /\ ~caught THEN answer
                     ELSE Return(None)]

create_s3_bucket_no_handler(bucket_name, region, world) ==
    LET request == create_bucket_request(bucket_name, region)
        answer == IF world.kind = "ok" THEN Ok(None) ELSE Raise(world.cls, <<>>)
    IN  [calls |-> <<ApiCall(request, answer)>>,
         outcome |-> IF answer.kind = "raise" THEN answer ELSE Return(None)]

\* create_s3_bucket: the calls it makes and how it ends; a ClientError is
\* printed and swallowed, any other failure propagates
create_s3_bucket(bucket_name, region, world) ==
    LET request == create_bucket_request(bucket_name, region)
        answer == IF world.kind = "ok" THEN Ok(None) ELSE Raise(world.cls, <<>>)
        caught == answer.kind = "raise"
                  /\ FirstHandler(create_s3_bucket_handlers, answer.cls) # 0
    IN  [calls |-> <<ApiCall(request, answer)>>,
         outcome |-> IF answer.kind = "raise" /\ ~caught THEN answer
                     ELSE Return(None)]

\* the files under the path: pairs <<directory, name>>
AllFiles == (1..MaxDirs) \X (1..MaxNames)
Trees == SUBSET AllFiles

\* the directory os.walk reports as root: the path itself, or one below it
RootOf(path, d) ==
    IF d = 1 THEN path ELSE path \o <<"/","d">> \o <<Digits[d + 1]>>
NameOf(f) == <<"f">> \o <<Digits[f + 1]>> \o <<".","p","d","f">>

\* os.walk(path): the files of the path first, then those of each directory
\* below it, as (root, file)
os_walk(path, tree) ==
    LET all == [i \in 1..(MaxDirs * MaxNames) |->
                   <<((i - 1) \div MaxNames) + 1, ((i - 1) % MaxNames) + 1>>]
        found == SelectSeq(all, LAMBDA p : p \in tree)
    IN  [i \in 1..Len(found) |->
            [root |-> RootOf(path, found[i][1]), file |-> NameOf(found[i][2])]]

os_path_join(root, file) == root \o <<"/">> \o file

upload_request_keyed_by_path(root, file, bucket_name) ==
    [op |-> "upload_file", Filename |-> os_path_join(root, file),
     Bucket |-> bucket_name, Key |-> os_path_join(root, file)]

\* the arguments of s3_client.upload_file for one walked file
upload_request(root, file, bucket_name) ==
    [op |-> "upload_file", Filename |-> os_path_join(root, file),
     Bucket |-> bucket_name, Key |-> file]

\* upload_directory, when the first k uploads succeed and the next one, if
\* there is one, fails: the failure propagates out of the loops
upload_directory(path, bucket_name, tree, k) ==
    LET walked == os_walk(path, tree)
        n == Len(walked)
        issued == Min(n, k + 1)
    IN  [calls |-> [i \in 1..issued |->
                      ApiCall(upload_request(walked[i].root, walked[i].file,
                                             bucket_name),
                              IF i <= k THEN Ok(None)
                              ELSE Raise("S3UploadFailedError", <<>>))],
         outcome |-> IF k >= n THEN Return(None)
                     ELSE Raise("S3UploadFailedError", <<>>)]

\* the identifiers the service may give the knowledge base
KbIds == {"KB1", "KB2"}

\* BedrockKnowledgeBase(...): the helper downloaded by the notebook creates
\* the knowledge base over the bucket, or fails
construct_knowledge_base(bucket_name, world) ==
    LET request == [op |-> "BedrockKnowledgeBase",
                    data_sources |-> <<[type |-> "S3", bucket_name |-> bucket_name]>>,
                    chunking_strategy |-> "FIXED_SIZE"]
    IN  IF world.kind = "ok"
        THEN [calls |-> <<ApiCall(request, Ok(world.id))>>,
              outcome |-> Return(Some(world.id))]
        ELSE [calls |-> <<ApiCall(request, Raise("Exception", <<>>))>>,
              outcome |-> Raise("Exception", <<>>)]

ingestion_cell_reading_id_first(kb, started) ==
    LET read == ApiCall([op |-> "get_knowledge_base_id"], Ok(kb[1]))
        sleep == ApiCall([op |-> "sleep", seconds |-> 30], Ok(None))
        start == ApiCall([op |-> "start_ingestion_job"],
                         IF started THEN Ok(None) ELSE Raise("Exception", <<>>))
    IN  [calls |-> <<read, sleep, start>>,
         outcome |-> IF started THEN Return(None) ELSE Raise("Exception", <<>>),
         kb_id |-> Some(kb[1])]

\* the cell that waits, starts the ingestion job and keeps the id; kb_id is
\* assigned only when the job was started
ingestion_cell(kb, started) ==
    LET sleep == ApiCall([op |-> "sleep", seconds |-> 30], Ok(None))
        start == ApiCall([op |-> "start_ingestion_job"],
                         IF started THEN Ok(None) ELSE Raise("Exception", <<>>))
        read == ApiCall([op |-> "get_knowledge_base_id"], Ok(kb[1]))
    IN  IF started
        THEN [calls |-> <<sleep, start, read>>, outcome |-> Return(None),
              kb_id |-> Some(kb[1])]
        ELSE [calls |-> <<sleep, start>>, outcome |-> Raise("Exception", <<>>),
              kb_id |-> None]

\* the cell that queries: retrieve_and_generate over the kept id
query_cell(id, region, answered) ==
    LET request == [op |-> "retrieve_and_generate",
                    knowledgeBaseId |-> id[1],
                    region |-> region,
                    foundation_model |-> "amazon.nova-micro-v1:0",
                    numberOfResults |-> 5]
    IN  [calls |-> <<ApiCall(request, IF answered THEN Ok(None)
                                      ELSE Raise("ClientError", <<>>))>>,
         outcome |-> IF answered THEN Return(None)
                     ELSE Raise("ClientError", <<>>)]

NoBucket == [exists |-> FALSE, keys |-> {}]

\* the knowledge-base notebook is not open in the session of the agents
KbNotOpened ==
    /\ kb_pc = "off"
    /\ kb_ran = <<>>
    /\ kb_region = None
    /\ kb_tree = {}
    /\ kb_log = <<>>
    /\ kb_bucket = NoBucket
    /\ knowledge_base = None
    /\ kb_id = None

----------------------------------------------------------------------------
(* The hosting session and the agent runtime                               *)

Agent_binding_last_tool(tools) ==
    [n \in {tools[i] : i \in 1..Len(tools)} |-> tools[Len(tools)]]

\* Agent(tools=[...]): the registry of one agent, tool name -> tool function
Agent(tools) == [n \in {tools[i] : i \in 1..Len(tools)} |-> n]

\* the variables of the hosting session next to the tools
InitSession ==
    [environ |-> [AZURE_API_KEY |-> "<YOUR_API_KEY>",
                  AZURE_API_BASE |-> "<YOUR_API_BASE>",
                  AZURE_API_VERSION |-> "<YOUR_API_VERSION>"],
     USER_ID |-> "new_user",
     tool_registry |->
        [agent |-> Agent(<<"current_time", "current_weather">>),
         memory_agent |-> Agent(<<"mem0_memory", "websearch">>)]]

AgentNames == {"agent", "memory_agent"}

\* an argument the runtime may leave out or pass: the mappings over one name
Optional(name, values) == {<<>>} \cup {[p \in {name} |-> v] : v \in values}

TimezoneInputs == {UTC, utc_lower, EtcUTC, LosAngeles, Kolkata, Phobos}
CityInputs == {Seattle, Oslo, <<>>}
KeywordInputs == {cats, <<>>}
RegionInputs == {us_en, wt_wt}
MaxResultsInputs == {None} \cup {Some(n) : n \in (-1)..MaxCap}

\* the structured arguments the runtime may pass to a tool function;
\* mem0_memory is a tool of strands_tools and is not invoked here
ToolArguments(fn) ==
    CASE fn = "current_time" -> Optional("timezone", TimezoneInputs)
      [] fn = "current_weather" -> {[city |-> c] : c \in CityInputs}
      [] fn = "websearch" ->
            {Merge([keywords |-> k], Merge(r, m)) :
                k \in KeywordInputs,
                r \in Optional("region", RegionInputs),
                m \in Optional("max_results", MaxResultsInputs)}
      [] OTHER -> {}

\* a parameter's value: the argument passed, or the declared default
Param(args, name, default) ==
    IF name \in DOMAIN args THEN args[name] ELSE default

NoCall == [agent |-> "", name |-> "", fn |-> "", args |-> <<>>]
NoWorld == [kind |-> "none"]
NoPrev == [call |-> NoCall, outcome |-> NoOutcome, at |-> 0]

Init ==
    /\ now = FirstInstant
    /\ pc = "idle"
    /\ call = NoCall
    /\ dep = NoWorld
    /\ outcome = NoOutcome
    /\ ddgs_log = <<>>
    /\ returns = 0
    /\ session = InitSession
    /\ prev = NoPrev
    /\ KbNotOpened

\* the wall clock advances between the steps of the session
Tick ==
    /\ pc \in {"idle", "invoked"}
    /\ now < FirstInstant + MaxTicks
    /\ now' = now + 1
    /\ UNCHANGED <<pc, call, dep, outcome, ddgs_log, returns, session, prev>>
    /\ UNCHANGED kbvars

\* the runtime creates a ToolInvocation for a tool registered with an agent
Invoke(agent, name, args) ==
    /\ pc = "idle"
    /\ name \in DOMAIN session.tool_registry[agent]
    /\ args \in ToolArguments(session.tool_registry[agent][name])
    /\ call' = [agent |-> agent, name |-> name,
                fn |-> session.tool_registry[agent][name], args |-> args]
    /\ pc' = "invoked"
    /\ dep' = NoWorld
    /\ outcome' = NoOutcome
    /\ ddgs_log' = <<>>
    /\ returns' = 0
    /\ prev' = IF prev.call.name = name /\ prev.call.args = args
               THEN prev ELSE NoPrev
    /\ UNCHANGED <<now, session>>
    /\ UNCHANGED kbvars

\* the tool function ran: r is what it did
Finish(r, world) ==
    /\ outcome' = r.outcome
    /\ ddgs_log' = r.ddgs_calls
    /\ call' = [call EXCEPT !.args = r.frame.args]
    /\ session' = r.frame.session
    /\ dep' = world
    /\ pc' = IF r.outcome.kind = "return" THEN "returned" ELSE "raised"
    /\ returns' = IF r.outcome.kind = "return" THEN returns + 1 ELSE returns
    /\ UNCHANGED <<now, prev>>
    /\ UNCHANGED kbvars

Frame == [args |-> call.args, session |-> session]

RunWebsearch ==
    /\ pc = "invoked"
    /\ call.fn = "websearch"
    /\ \E world \in Worlds :
          Finish(websearch(call.args.keywords,
                           Param(call.args, "region", us_en),
                           Param(call.args, "max_results", None),
                           world, Frame),
                 world)

RunCurrentTime ==
    /\ pc = "invoked"
    /\ call.fn = "current_time"
    /\ Finish(current_time(Param(call.args, "timezone", UTC), now, Frame),
              NoWorld)

RunCurrentWeather ==
    /\ pc = "invoked"
    /\ call.fn = "current_weather"
    /\ Finish(current_weather(call.args.city, now, Frame), NoWorld)

\* the runtime takes the result (or the failure) of the invocation, and the
\* invocation ends; prev keeps the last invocation of a clock or weather
\* tool while the next invocation repeats it
Deliver ==
    /\ pc \in {"returned", "raised"}
    /\ pc' = "idle"
    /\ prev' = IF call.fn \in {"current_time", "current_weather"}
               THEN [call |-> call, outcome |-> outcome, at |-> now]
               ELSE NoPrev
    /\ call' = NoCall
    /\ dep' = NoWorld
    /\ outcome' = NoOutcome
    /\ ddgs_log' = <<>>
    /\ returns' = 0
    /\ UNCHANGED <<now, session>>
    /\ UNCHANGED kbvars

Next ==
    \/ Tick
    \/ \E agent \in AgentNames :
         \E name \in DOMAIN InitSession.tool_registry[agent] :
           \E args \in ToolArguments(name) : Invoke(agent, name, args)
    \/ RunWebsearch
    \/ RunCurrentTime
    \/ RunCurrentWeather
    \/ Deliver

Spec == Init /\ [][Next]_vars

TypeOK ==
    /\ now \in Instants
    /\ pc \in {"idle", "invoked", "returned", "raised"}
    /\ returns \in 0..1

----------------------------------------------------------------------------
(* A run of the knowledge-base notebook, cell after cell; a failure that    *)
(* leaves a cell ends the run                                               *)

KbInit ==
    /\ now = FirstInstant
    /\ pc = "idle"
    /\ call = NoCall
    /\ dep = NoWorld
    /\ outcome = NoOutcome
    /\ ddgs_log = <<>>
    /\ returns = 0
    /\ session = InitSession
    /\ prev = NoPrev
    /\ kb_pc = "bucket"
    /\ kb_ran = <<>>
    /\ kb_region \in Regions
    /\ kb_tree \in Trees
    /\ kb_log = <<>>
    /\ kb_bucket = NoBucket
    /\ knowledge_base = None
    /\ kb_id = None

\* a cell ran: r is what it did, next the cell that follows it
KbCell(cell, r, next) ==
    /\ kb_ran' = Append(kb_ran, cell)
    /\ kb_log' = kb_log \o r.calls
    /\ kb_pc' = IF r.outcome.kind = "return" THEN next ELSE "aborted"
    /\ UNCHANGED <<kb_region, kb_tree>>
    /\ UNCHANGED toolvars

\* the keys written by the calls that succeeded
KeysWritten(calls) ==
    {calls[i].request.Key : i \in {j \in 1..Len(calls) : calls[j].answer.kind = "ok"}}

\* create_s3_bucket(data_bucket_name, region)
KbCreateBucket ==
    /\ kb_pc = "bucket"
    /\ \E world \in BucketWorlds :
          /\ KbCell("bucket",
                    create_s3_bucket(data_bucket_name, kb_region, world),
                    "upload")
          /\ kb_bucket' = [exists |-> world.exists, keys |-> {}]
    /\ UNCHANGED <<knowledge_base, kb_id>>

\* upload_directory("./onboarding_files", data_bucket_name); no upload
\* succeeds into a bucket that is not there
KbUpload ==
    /\ kb_pc = "upload"
    /\ \E k \in 0..Len(os_walk(onboarding_files, kb_tree)) :
          /\ ~kb_bucket.exists => k = 0
          /\ LET r == upload_directory(onboarding_files, data_bucket_name,
                                       kb_tree, k)
             IN  /\ KbCell("upload", r, "construct")
                 /\ kb_bucket' = [kb_bucket EXCEPT
                                    !.keys = @ \cup KeysWritten(r.calls)]
    /\ UNCHANGED <<knowledge_base, kb_id>>

\* knowledge_base = BedrockKnowledgeBase(...)
KbConstruct ==
    /\ kb_pc = "construct"
    /\ \E world \in {[kind |-> "ok", id |-> i] : i \in KbIds}
                    \cup {[kind |-> "raise", id |-> ""]} :
          LET r == construct_knowledge_base(data_bucket_name, world)
          IN  /\ KbCell("construct", r, "ingest")
              /\ knowledge_base' = IF r.outcome.kind = "return"
                                   THEN r.outcome.value ELSE knowledge_base
    /\ UNCHANGED <<kb_bucket, kb_id>>

\* time.sleep(30); start_ingestion_job(); kb_id = get_knowledge_base_id()
KbIngest ==
    /\ kb_pc = "ingest"
    /\ \E started \in BOOLEAN :
          LET r == ingestion_cell(knowledge_base, started)
          IN  /\ KbCell("ingest", r, "query")
              /\ kb_id' = r.kb_id
    /\ UNCHANGED <<kb_bucket, knowledge_base>>

\* bedrock_agent_runtime_client.retrieve_and_generate(...)
KbQuery ==
    /\ kb_pc = "query"
    /\ \E answered \in BOOLEAN :
          KbCell("query", query_cell(kb_id, kb_region, answered), "done")
    /\ UNCHANGED <<kb_bucket, knowledge_base, kb_id>>

KbNext ==
    \/ KbCreateBucket
    \/ KbUpload
    \/ KbConstruct
    \/ KbIngest
    \/ KbQuery

KbSpec == KbInit /\ [][KbNext]_vars

KbTypeOK ==
    /\ kb_pc \in {"bucket", "upload", "construct", "ingest", "query", "done",
                  "aborted"}
    /\ kb_region \in Regions
    /\ kb_tree \in Trees

----------------------------------------------------------------------------
(* Properties of the tool functions                                        *)

Finished == pc \in {"returned", "raised"}
Ran(fn) == Finished /\ call.fn = fn

\* the answer of the dependency to the (first) call of this invocation
Answer == ddgs_log[1].answer
DepFailed == Ran("websearch") /\ Len(ddgs_log) >= 1 /\ Answer.kind = "raise"
DepSucceeded == Ran("websearch") /\ Len(ddgs_log) >= 1 /\ Answer.kind = "return"

ReturnedStr == pc = "returned" /\ outcome.value.type = "str"

\* s is label, then some text, then e, then some text
EmbedsAfter(s, label, e) ==
    /\ StartsWith(s, label)
    /\ \E k \in Len(label)..(Len(s) - Len(e)) : SubSeq(s, k + 1, k + Len(e)) = e

\* C1: every invocation of websearch, current_time or current_weather, for
\* every input of its declared domain and every outcome of its dependency,
\* ends with a returned value and never with a failure propagated to the
\* runtime.
C1_ToolsAreTotal == Finished => outcome.kind = "return"

\* C2: when the dependency signals a rate-limit failure, websearch returns
\* exactly the fixed rate-limit text, which begins with "RatelimitException",
\* and not a provider-error or generic-error string, whatever the input and
\* the message of the failure.
C2_RateLimited ==
    (DepFailed /\ IsSubclass(Answer.cls, "RatelimitException")) =>
        /\ ReturnedStr
        /\ outcome.value.v = RatelimitText
        /\ StartsWith(outcome.value.v, RatelimitLabel)
        /\ ~StartsWith(outcome.value.v, ProviderLabel)
        /\ ~StartsWith(outcome.value.v, GenericLabel)

C2_Witness ==
    /\ DepFailed
    /\ Answer.cls = "RatelimitException"
    /\ Answer.msg # <<>>
    /\ pc = "returned"
    /\ outcome.value = StrVal(RatelimitText)

\* C3: when the dependency raises a provider failure that is not a
\* rate-limit failure, websearch returns a string that begins with
\* "DuckDuckGoSearchException" and carries the provider's message after it.
C3_ProviderError ==
    (DepFailed /\ IsSubclass(Answer.cls, "DuckDuckGoSearchException")
               /\ ~IsSubclass(Answer.cls, "RatelimitException")) =>
        /\ ReturnedStr
        /\ EmbedsAfter(outcome.value.v, ProviderLabel, Answer.msg)
        /\ outcome.value.v = ProviderLabel \o ColonSpace \o Answer.msg

C3_Witness ==
    /\ DepFailed
    /\ Answer.cls = "TimeoutException"
    /\ Answer.msg # <<>>
    /\ pc = "returned"
    /\ StartsWith(outcome.value.v, ProviderLabel)

\* C4: when the dependency fails with a failure that is neither a rate-limit
\* nor a provider failure, websearch returns a string that begins with
\* "Exception" and carries the failure's description after it.
C4_UnclassifiedError ==
    (DepFailed /\ ~IsSubclass(Answer.cls, "DuckDuckGoSearchException")) =>
        /\ ReturnedStr
        /\ EmbedsAfter(outcome.value.v, GenericLabel, Answer.msg)
        /\ outcome.value.v = GenericLabel \o ColonSpace \o Answer.msg

C4_Witness ==
    /\ DepFailed
    /\ Answer.cls = "ValueError"
    /\ dep.kind = "raise"
    /\ Answer.msg = <<"E">>
    /\ pc = "returned"
    /\ StartsWith(outcome.value.v, GenericLabel)

\* the result cap the caller passed: None when it passed none
Cap == Param(call.args, "max_results", None)

\* C5: a successful websearch call returns the records the dependency
\* produced, at most n of them when the caller passed the cap n, or the
\* string "No results found." when the dependency produced none; it never
\* returns an empty sequence.
C5_SuccessfulSearch ==
    DepSucceeded =>
        /\ pc = "returned"
        /\ outcome.value # ListVal(<<>>)
        /\ IF Answer.value.v = <<>>
           THEN outcome.value = StrVal(NoResultsFound)
           ELSE /\ outcome.value = Answer.value
                /\ outcome.value.v = SubSeq(dep.hits, 1, Len(outcome.value.v))
                /\ Cap # None => Len(outcome.value.v) <= Cap[1]

C5_Witness ==
    /\ DepSucceeded
    /\ call.args.keywords = cats
    /\ Cap = Some(3)
    /\ Len(dep.hits) >= 3
    /\ outcome.value.type = "list"
    /\ Len(outcome.value.v) = 3

\* C6: one websearch invocation calls the dependency exactly once, whatever
\* the outcome, and hands exactly one result back to the runtime: a failure
\* of the dependency is not retried and is returned as an ordinary result.
C6_OneCallOneResult ==
    Ran("websearch") =>
        /\ Len(ddgs_log) = 1
        /\ dep.kind = "raise" => Answer = Raise(dep.cls, dep.msg)
        /\ pc = "returned"
        /\ returns = 1

C6_Witness ==
    /\ Ran("websearch")
    /\ DepFailed
    /\ Answer.cls = "RatelimitException"
    /\ Len(ddgs_log) = 1
    /\ returns = 1

\* C7: for every city, current_weather returns the string "sunny" and never
\* fails.
C7_WeatherIsSunny ==
    Ran("current_weather") => outcome = Return(StrVal(Sunny))

C7_Witness ==
    /\ Ran("current_weather")
    /\ call.args.city = Seattle
    /\ outcome = Return(StrVal(Sunny))

----------------------------------------------------------------------------
(* Reading a timestamp back: datetime.fromisoformat                        *)

DigitVal(c) == (CHOOSE k \in 1..10 : Digits[k] = c) - 1
IsDigit(c) == \E k \in 1..10 : Digits[k] = c
Num2(s, i) == 10 * DigitVal(s[i]) + DigitVal(s[i + 1])

\* s reads as YYYY-MM-DDTHH:MM:SS+HH:MM
Parseable(s) ==
    /\ Len(s) = 25
    /\ \A i \in {1, 2, 3, 4, 6, 7, 9, 10, 12, 13, 15, 16, 18, 19, 21, 22, 24, 25} :
          IsDigit(s[i])
    /\ s[5] = "-" /\ s[8] = "-" /\ s[11] = "T"
    /\ s[14] = ":" /\ s[17] = ":" /\ s[23] = ":"
    /\ s[20] \in {"+", "-"}
    /\ Num2(s, 12) < 24 /\ Num2(s, 15) < 60 /\ Num2(s, 18) < 60
    /\ Num2(s, 21) < 24 /\ Num2(s, 24) < 60

\* the wall time (minutes of March 2025), the offset and the instant read
fromisoformat(s) ==
    LET wall == (Num2(s, 9) - 1) * 1440 + Num2(s, 12) * 60 + Num2(s, 15)
        off == (IF s[20] = "-" THEN -1 ELSE 1) * (Num2(s, 21) * 60 + Num2(s, 24))
    IN  [wall |-> wall, offset |-> off, instant |-> wall - off]

\* the offset from UTC in force in a zone of the database at the instant t
ZoneOffset(key, t) ==
    CASE key = UTC -> 0
      [] key = EtcUTC -> 0
      [] key = Kolkata -> 5 * 60 + 30
      [] key = LosAngeles -> IF t < DstStart THEN -(8 * 60) ELSE -(7 * 60)

Timezone == Param(call.args, "timezone", UTC)

\* C8: for every time zone identifier of the database, current_time returns
\* a parseable timestamp of the current instant carrying the offset in force
\* in that zone; for "UTC", passed or left to the default, the offset is
\* zero.
C8_TimeInZone ==
    (Ran("current_time") /\ Timezone \in ZoneInfoKeys) =>
        /\ ReturnedStr
        /\ Parseable(outcome.value.v)
        /\ fromisoformat(outcome.value.v).offset = ZoneOffset(Timezone, now)
        /\ fromisoformat(outcome.value.v).instant = now
        /\ Timezone = UTC =>
              SubSeq(outcome.value.v, 20, 25) = <<"+","0","0",":","0","0">>

C8_Witness ==
    /\ Ran("current_time")
    /\ Timezone = Kolkata
    /\ pc = "returned"
    /\ SubSeq(outcome.value.v, 20, 25) = <<"+","0","5",":","3","0">>

\* the invocation repeats the one before it: same tool, same arguments, and
\* both returned
Repeated(fn) ==
    /\ pc = "returned"
    /\ call.fn = fn
    /\ prev.call.fn = fn
    /\ prev.call.args = call.args
    /\ prev.outcome.kind = "return"

\* C9 as stated: two invocations of current_weather with the same input
\* return the same; two invocations of current_time with the same input
\* return timestamps with the same offset, the instant of the second not
\* before that of the first.
C9_SameOffsetTwice ==
    /\ Repeated("current_weather") => outcome = prev.outcome
    /\ Repeated("current_time") =>
          /\ fromisoformat(outcome.value.v).offset
                = fromisoformat(prev.outcome.value.v).offset
          /\ fromisoformat(outcome.value.v).instant
                >= fromisoformat(prev.outcome.value.v).instant

\* a change of the zone's offset lies between the two invocations
OffsetChangeBetween(key, t1, t2) == key = LosAngeles /\ t1 < DstStart /\ DstStart <= t2

\* C9 amended: two invocations of current_weather with the same input return
\* the same; two invocations of current_time with the same input return
\* timestamps whose instants do not go back, and whose offsets are the same
\* unless the zone changed its offset (daylight saving) between the two.
C9_SameOffsetUnlessZoneChanged ==
    /\ Repeated("current_weather") => outcome = prev.outcome
    /\ Repeated("current_time") =>
          /\ fromisoformat(outcome.value.v).instant
                >= fromisoformat(prev.outcome.value.v).instant
          /\ fromisoformat(prev.outcome.value.v).instant = prev.at
          /\ ~OffsetChangeBetween(Timezone, prev.at, now) =>
                fromisoformat(outcome.value.v).offset
                   = fromisoformat(prev.outcome.value.v).offset

C9_Witness ==
    /\ Repeated("current_time")
    /\ Timezone = LosAngeles
    /\ prev.at < now
    /\ DstStart <= prev.at
    /\ fromisoformat(outcome.value.v).offset = -420
    /\ fromisoformat(prev.outcome.value.v).offset = -420

\* C10: a tool function changes nothing the caller owns: over the step in
\* which a tool runs, the arguments, the tool registry and every other
\* variable of the session stay as they were; only the outcome and the log
\* of outbound calls change, and only websearch calls out.
C10_NoCallerStateMutated ==
    [][(pc = "invoked" /\ pc' \in {"returned", "raised"}) =>
          /\ session' = session
          /\ call' = call
          /\ now' = now
          /\ prev' = prev
          /\ call.fn # "websearch" => ddgs_log' = <<>>]_vars

C10_Witness ==
    /\ Ran("current_time")
    /\ pc = "returned"
    /\ Timezone = LosAngeles
    /\ session = InitSession
    /\ prev.call.fn = "current_time"

----------------------------------------------------------------------------
(* The registry and the shapes of a websearch result                       *)

\* the tools each agent is constructed with, by name
RegisteredTools ==
    [agent |-> {"current_time", "current_weather"},
     memory_agent |-> {"mem0_memory", "websearch"}]

\* C11: each agent's registry is built once from a name-unique set of tools
\* and never changes afterwards: at every point of every sequence of tool
\* invocations each registered name maps to the function of that name, and
\* an invocation dispatched by name runs the function registered under it.
C11_RegistryReadOnly ==
    /\ \A a \in AgentNames :
          /\ DOMAIN session.tool_registry[a] = RegisteredTools[a]
          /\ Cardinality(DOMAIN session.tool_registry[a]) = 2
          /\ \A n \in RegisteredTools[a] : session.tool_registry[a][n] = n
    /\ pc # "idle" =>
          /\ call.name \in RegisteredTools[call.agent]
          /\ call.fn = call.name
          /\ call.fn = session.tool_registry[call.agent][call.name]
    /\ Ran("current_weather") => outcome = Return(StrVal(Sunny))

C11_Witness ==
    /\ Repeated("current_weather")
    /\ call.agent = "agent"
    /\ call.name = "current_weather"
    /\ session.tool_registry["agent"]["current_weather"] = "current_weather"
    /\ session.tool_registry["memory_agent"]["websearch"] = "websearch"

\* the five shapes of a websearch result
IsRecords(v) == v.type = "list" /\ v.v # <<>>
IsNoResults(v) == v = StrVal(NoResultsFound)
IsRateLimitString(v) == v = StrVal(RatelimitText)
IsProviderString(v) == v.type = "str" /\ StartsWith(v.v, ProviderLabel \o ColonSpace)
IsGenericString(v) == v.type = "str" /\ StartsWith(v.v, GenericLabel \o ColonSpace)

ShapesOf(v) ==
    {sh \in {"records", "none", "ratelimit", "provider", "generic"} :
        CASE sh = "records" -> IsRecords(v)
          [] sh = "none" -> IsNoResults(v)
          [] sh = "ratelimit" -> IsRateLimitString(v)
          [] sh = "provider" -> IsProviderString(v)
          [] sh = "generic" -> IsGenericString(v)}

\* the shape the dependency's answer calls for
ShapeFor(answer) ==
    IF answer.kind = "return"
    THEN IF answer.value.v # <<>> THEN "records" ELSE "none"
    ELSE IF IsSubclass(answer.cls, "RatelimitException") THEN "ratelimit"
    ELSE IF IsSubclass(answer.cls, "DuckDuckGoSearchException") THEN "provider"
    ELSE "generic"

\* C13: every websearch result has exactly one of the five shapes, the one
\* the dependency's outcome calls for; an error-labelled string is returned
\* only when the dependency failed, and the invocation hands back one whole
\* result.
C13_FiveShapes ==
    Ran("websearch") =>
        /\ pc = "returned"
        /\ returns = 1
        /\ Len(ddgs_log) >= 1
        /\ ShapesOf(outcome.value) = {ShapeFor(Answer)}
        /\ (ShapesOf(outcome.value) \cap {"ratelimit", "provider", "generic"} # {})
              => Answer.kind = "raise"
        /\ IsRecords(outcome.value) => outcome.value = Answer.value

C13_Witness ==
    /\ Ran("websearch")
    /\ Answer.kind = "return"
    /\ Answer.value.v = <<>>
    /\ dep.kind = "ok"
    /\ Len(dep.hits) > 0
    /\ Cap = Some(0)
    /\ ShapesOf(outcome.value) = {"none"}

----------------------------------------------------------------------------
(* Properties of the knowledge-base notebook                               *)

KbOps == [i \in 1..Len(kb_log) |-> kb_log[i].request.op]
KbCalls(op) == SelectSeq(kb_log, LAMBDA c : c.request.op = op)
Walked == os_walk(onboarding_files, kb_tree)
KbFinished == kb_pc \in {"done", "aborted"}
CellReturned(i) == Len(kb_ran) > i \/ (Len(kb_ran) = i /\ kb_pc # "aborted")

IsPrefix(s, t) == Len(s) <= Len(t) /\ SubSeq(t, 1, Len(s)) = s

\* the operations of a run in which every call succeeds
ReferenceOps ==
    <<"create_bucket">> \o [i \in 1..Len(Walked) |-> "upload_file"]
    \o <<"BedrockKnowledgeBase", "sleep", "start_ingestion_job",
         "get_knowledge_base_id", "retrieve_and_generate">>

\* C12 as stated: there is no branching: every run issues the same external
\* calls in the same order, whatever the region and whatever the outcome of
\* an earlier call.
C12_SameCallsEveryRun ==
    KbFinished =>
        /\ KbOps = ReferenceOps
        /\ kb_log[1].request = [op |-> "create_bucket", Bucket |-> data_bucket_name,
                                CreateBucketConfiguration |-> None]

\* C12 amended: the external calls of a run are issued in one fixed order,
\* each at most once and none retried, but they depend on the region and on
\* earlier outcomes: the calls of a run are a prefix of the fixed sequence,
\* the whole of it when the run completes; a call that failed is the last
\* one unless it is the bucket creation failing with a ClientError; and the
\* create-bucket request is the one of the branch taken for the region.
C12_FixedOrderNoRetry ==
    /\ IsPrefix(KbOps, ReferenceOps)
    /\ kb_pc = "done" => KbOps = ReferenceOps
    /\ \A i, j \in 1..Len(kb_log) : i < j => kb_log[i].request # kb_log[j].request
    /\ \A i \in 1..Len(kb_log) :
          (kb_log[i].answer.kind = "raise" /\ i < Len(kb_log)) =>
              /\ kb_log[i].request.op = "create_bucket"
              /\ kb_log[i].answer.cls = "ClientError"
    /\ Len(kb_log) >= 1 =>
          (kb_log[1].request.CreateBucketConfiguration = None
              <=> kb_region \in {None, Some("us-east-1")})

C12_Witness ==
    /\ kb_pc = "done"
    /\ kb_region = Some("us-west-2")
    /\ kb_log[1].answer.kind = "raise"
    /\ kb_log[1].request.CreateBucketConfiguration # None
    /\ Len(Walked) >= 2
    /\ KbOps = ReferenceOps

\* C14 as stated: create_s3_bucket returns normally whether or not the
\* bucket was created, so the upload step is attempted in every run.
C14_UploadAttemptedEveryRun ==
    Len(kb_ran) >= 1 => CellReturned(1)

\* C14 amended: create_s3_bucket never propagates a ClientError of the
\* bucket creation: it returns normally when the bucket is created and when
\* creation fails with a ClientError, and the upload step is attempted in
\* every such run, the runs in which the bucket was not created included; a
\* failure of another class propagates and the run ends before the upload.
C14_ClientErrorSwallowed ==
    Len(kb_ran) >= 1 =>
        LET answer == kb_log[1].answer
            swallowed == answer.kind = "ok" \/ IsSubclass(answer.cls, "ClientError")
        IN  /\ kb_ran[1] = "bucket"
            /\ swallowed => CellReturned(1)
            /\ (swallowed /\ Len(kb_ran) = 1) => kb_pc = "upload"
            /\ (swallowed /\ Len(kb_ran) >= 2) => kb_ran[2] = "upload"
            /\ ~swallowed => (kb_pc = "aborted" /\ kb_ran = <<"bucket">>)

C14_Witness ==
    /\ Len(kb_ran) >= 2
    /\ kb_ran[2] = "upload"
    /\ kb_log[1].answer.kind = "raise"
    /\ kb_log[1].answer.cls = "ClientError"
    /\ ~kb_bucket.exists
    /\ Len(KbCalls("upload_file")) = 1
    /\ KbCalls("upload_file")[1].answer.kind = "raise"

\* C15: create_s3_bucket issues exactly one create-bucket request, for the
\* given bucket name; the request carries a LocationConstraint if and only
\* if the region is given and is not 'us-east-1', and the constraint is then
\* the region.
C15_LocationConstraint ==
    Len(kb_ran) >= 1 =>
        LET creates == KbCalls("create_bucket")
            cfg == creates[1].request.CreateBucketConfiguration
        IN  /\ Len(creates) = 1
            /\ kb_log[1] = creates[1]
            /\ creates[1].request.Bucket = data_bucket_name
            /\ cfg # None <=> (kb_region # None /\ kb_region[1] # "us-east-1")
            /\ cfg # None => cfg[1].LocationConstraint = kb_region[1]

C15_Witness ==
    /\ Len(kb_ran) >= 1
    /\ kb_region = Some("us-west-2")
    /\ kb_log[1].request.CreateBucketConfiguration
          = Some([LocationConstraint |-> "us-west-2"])

\* os.path.basename
os_path_basename(s) ==
    LET slashes == {i \in 1..Len(s) : s[i] = "/"}
        last == IF slashes = {} THEN 0
                ELSE CHOOSE i \in slashes : \A j \in slashes : j <= i
    IN  SubSeq(s, last + 1, Len(s))

UploadRan == Len(kb_ran) >= 2 /\ kb_ran[2] = "upload"

\* the uploads follow the walk: the i-th upload is of the i-th walked file,
\* under the file's base name
UploadsFollowWalk(ups) ==
    /\ Len(ups) <= Len(Walked)
    /\ \A i \in 1..Len(ups) :
          /\ ups[i].request.Filename = os_path_join(Walked[i].root, Walked[i].file)
          /\ ups[i].request.Bucket = data_bucket_name
          /\ ups[i].request.Key = os_path_basename(ups[i].request.Filename)
          /\ ups[i].request.Key = Walked[i].file

\* two walked files have the same base name
SameBaseName ==
    \E i, j \in 1..Len(Walked) : i # j /\ Walked[i].file = Walked[j].file

\* C16 as stated: upload_directory issues exactly one upload per file found
\* under the path, each keyed by the file's base name.
C16_OneUploadPerFile ==
    UploadRan =>
        /\ UploadsFollowWalk(KbCalls("upload_file"))
        /\ Len(KbCalls("upload_file")) = Len(Walked)

\* C16 amended: upload_directory issues at most one upload per file found
\* under the path, in the order of the walk, each keyed by the file's base
\* name, and exactly one per file when it returns (an upload that fails
\* propagates and the files after it are not uploaded); when it returns, two
\* files with the same base name in different directories went to the same
\* key and the uploads wrote fewer keys than files were walked.
C16_UploadsPerFile ==
    UploadRan =>
        LET ups == KbCalls("upload_file")
        IN  /\ UploadsFollowWalk(ups)
            /\ CellReturned(2) =>
                  /\ Len(ups) = Len(Walked)
                  /\ kb_bucket.keys = {Walked[i].file : i \in 1..Len(Walked)}
                  /\ SameBaseName => Cardinality(kb_bucket.keys) < Len(Walked)
            /\ ~CellReturned(2) =>
                  /\ Len(ups) >= 1
                  /\ ups[Len(ups)].answer.kind = "raise"

C16_Witness ==
    /\ UploadRan
    /\ CellReturned(2)
    /\ {<<1, 1>>, <<2, 1>>} \subseteq kb_tree
    /\ Len(KbCalls("upload_file")) = Len(Walked)
    /\ Len(Walked) >= 3
    /\ Cardinality(kb_bucket.keys) < Len(Walked)

\* the place of an operation in the notebook
Rank(op) ==
    CASE op = "create_bucket" -> 1
      [] op = "upload_file" -> 2
      [] op = "BedrockKnowledgeBase" -> 3
      [] op = "sleep" -> 4
      [] op = "start_ingestion_job" -> 5
      [] op = "get_knowledge_base_id" -> 6
      [] op = "retrieve_and_generate" -> 7

\* before the j-th call there is a call of the operation that succeeded
Before(j, op) ==
    \E i \in 1..(j - 1) : kb_log[i].request.op = op /\ kb_log[i].answer.kind = "ok"

\* C17: the external steps occur in a fixed order: the bucket-creation
\* attempt before every upload, all uploads before the construction of the
\* knowledge base, construction and wait before the start of the ingestion
\* job, the id read only after the job was started, and the query only after
\* the id was read, with exactly that id.
C17_FixedOrder ==
    /\ \A i, j \in 1..Len(kb_log) :
          i < j => /\ Rank(KbOps[i]) <= Rank(KbOps[j])
                   /\ Rank(KbOps[i]) = Rank(KbOps[j]) => KbOps[i] = "upload_file"
    /\ \A j \in 1..Len(kb_log) :
          /\ KbOps[j] = "upload_file" => KbOps[1] = "create_bucket" /\ j > 1
          /\ KbOps[j] = "BedrockKnowledgeBase" =>
                Len(KbCalls("upload_file")) = Len(Walked)
          /\ KbOps[j] = "start_ingestion_job" =>
                Before(j, "BedrockKnowledgeBase") /\ Before(j, "sleep")
          /\ KbOps[j] = "get_knowledge_base_id" => Before(j, "start_ingestion_job")
          /\ KbOps[j] = "retrieve_and_generate" =>
                /\ Before(j, "get_knowledge_base_id")
                /\ kb_id # None
                /\ kb_log[j].request.knowledgeBaseId = kb_id[1]
                /\ kb_id = knowledge_base
                /\ \E i \in 1..(j - 1) :
                      /\ KbOps[i] = "get_knowledge_base_id"
                      /\ kb_log[i].answer.value = kb_log[j].request.knowledgeBaseId
                /\ \E i \in 1..(j - 1) :
                      /\ KbOps[i] = "BedrockKnowledgeBase"
                      /\ kb_log[i].answer.value = kb_log[j].request.knowledgeBaseId
    /\ kb_id # None => \E j \in 1..Len(kb_log) : KbOps[j] = "start_ingestion_job"
                                                  /\ kb_log[j].answer.kind = "ok"

C17_Witness ==
    /\ kb_pc = "done"
    /\ Len(KbCalls("upload_file")) >= 2
    /\ kb_id = Some("KB2")
    /\ kb_log[Len(kb_log)].request.op = "retrieve_and_generate"
    /\ kb_log[Len(kb_log)].request.knowledgeBaseId = "KB2"
    /\ kb_log[Len(kb_log)].answer.kind = "ok"

====
